---- MODULE Spec2Model ----
(***************************************************************************)
(* A model of ablator/utils/base.py: the recursive container mapper        *)
(* (apply_lambda_to_iter and its two specialisations), parse_device,       *)
(* get_latest_chkpts, set_seed and the Dummy placeholder.                  *)
(*                                                                         *)
(* Python values live in a heap: a sequence of objects, an object's        *)
(* address being its index.  Containers hold addresses, so that object     *)
(* identity ("the very same instance", "a newly built container") and      *)
(* in-place mutation can be told apart from equality of contents.          *)
(* Python strings are sequences of one-character strings, so that prefix   *)
(* and suffix tests and lexicographic order are computed, not assumed.     *)
(***************************************************************************)
EXTENDS Integers, Sequences, FiniteSets, TLC

VARIABLES
  pc,              \* "call" before the modelled function runs, "done" after
  heap,            \* the Python object heap
  arg,             \* the arguments of the call
  ret,             \* [res |-> address or value returned, exc |-> exception raised]
  calls,           \* the addresses fn was called with, in call order
  cuda_available,  \* torch.cuda.is_available() on this host
  dir,             \* the names in checkpoint_dir
  rng,             \* the state of each random-number source
  trace,           \* the seedings and draws made so far, with their results
  chain            \* the operations chained on the Dummy instance so far

vars == <<pc, heap, arg, ret, calls, cuda_available, dir, rng, trace, chain>>

----------------------------------------------------------------------------
(* Bounds *)

MaxNodes == 4
MaxDeviceNodes == 3
MaxSeed == 1
MaxOps == 4
RngModulus == 5
MaxChain == 3

----------------------------------------------------------------------------
(* Python objects *)

NoExc == "none"

Obj(k, n, t, ks, its) ==
  [kind |-> k, num |-> n, text |-> t, keys |-> ks, items |-> its]

PyInt(n) == Obj("int", n, <<>>, <<>>, <<>>)
PyStr(t) == Obj("str", 0, t, <<>>, <<>>)
PyNone == Obj("NoneType", 0, <<>>, <<>>, <<>>)
Tensor(n, dev) == Obj("tensor", n, dev, <<>>, <<>>)
NdArray(n) == Obj("ndarray", n, <<>>, <<>>, <<>>)
PyList(its) == Obj("list", 0, <<>>, <<>>, its)
PyTuple(its) == Obj("tuple", 0, <<>>, <<>>, its)
PyDict(ks, its) == Obj("dict", 0, <<>>, ks, its)

CPU == <<"c", "p", "u">>
CUDA == <<"c", "u", "d", "a">>

\* isinstance(v, dict), isinstance(v, list), isinstance(v, Iterable),
\* isinstance(v, torch.Tensor)
IsDict(o) == o.kind = "dict"
IsList(o) == o.kind = "list"
IsIterable(o) == o.kind \in {"dict", "list", "tuple", "str", "tensor", "ndarray"}
IsTensor(o) == o.kind = "tensor"

\* The machine a call runs on: the heap, the log of fn's calls, the pending
\* exception and the value of the expression just evaluated.
Machine(h) == [heap |-> h, calls |-> <<>>, exc |-> NoExc, res |-> 0]
Return(m, v) == [m EXCEPT !.res = v]
Raise(m, e) == [m EXCEPT !.exc = e, !.res = 0]
New(m, o) == [m EXCEPT !.heap = Append(@, o), !.res = Len(m.heap) + 1]

----------------------------------------------------------------------------
(* The transforms handed to the mapper *)

Identity == [name |-> "identity", device |-> <<>>]
Square == [name |-> "square", device |-> <<>>]
ToNumpy == [name |-> "to_numpy", device |-> <<>>]
ToDevice(d) == [name |-> "to_device", device |-> d]

\* fn(v): the call is logged, then the transform runs on the object at a.
\*   identity   lambda v: v
\*   square     lambda v: v * v  (a TypeError on str, tuple, None)
\*   to_numpy   lambda v: v.detach().cpu().numpy() if isinstance(v, torch.Tensor) else v
\*   to_device  lambda v: v.to(device) if isinstance(v, torch.Tensor) else v
ApplyFn(m, a, fn) ==
  LET o == m.heap[a]
      m1 == [m EXCEPT !.calls = Append(@, a)]
  IN CASE fn.name = "identity" -> Return(m1, a)
       [] fn.name = "square" ->
            IF o.kind = "int" THEN New(m1, PyInt(o.num * o.num))
            ELSE IF IsTensor(o) THEN New(m1, Tensor(o.num * o.num, o.text))
            ELSE Raise(m1, "TypeError")
       [] fn.name = "to_numpy" ->
            IF IsTensor(o) THEN New(m1, NdArray(o.num)) ELSE Return(m1, a)
       [] fn.name = "to_device" ->
            IF IsTensor(o) THEN New(m1, Tensor(o.num, fn.device)) ELSE Return(m1, a)

----------------------------------------------------------------------------
(* apply_lambda_to_iter *)

RECURSIVE apply_lambda_to_iter(_, _, _)
RECURSIVE ListComp(_, _, _, _)
RECURSIVE DictComp(_, _, _, _)

\* The dict comprehension's value with the test narrowed to isinstance(v, dict):
\* a list value would be handed to fn whole.
DictValueOnlyDict(m, v, fn) ==
  IF IsDict(m.heap[v]) THEN apply_lambda_to_iter(m, v, fn) ELSE ApplyFn(m, v, fn)

\* The value a dict comprehension computes for one item:
\*   apply_lambda_to_iter(v, fn) if isinstance(v, (Iterable)) else fn(v)
DictValue(m, v, fn) ==
  IF IsIterable(m.heap[v]) THEN apply_lambda_to_iter(m, v, fn) ELSE ApplyFn(m, v, fn)

\* The list comprehension's element without the recursive call: fn(v).
ListValueNoRecursion(m, v, fn) == ApplyFn(m, v, fn)

\* The value a list comprehension computes for one element:
\*   apply_lambda_to_iter(v, fn)
ListValue(m, v, fn) == apply_lambda_to_iter(m, v, fn)

\* The list comprehension collecting its results last to first.
ListCompReversed(m, elems, fn, acc) ==
  IF elems = <<>> \/ m.exc # NoExc THEN Return(m, acc)
  ELSE LET r == ListValue(m, Head(elems), fn)
       IN ListComp(r, Tail(elems), fn, <<r.res>> \o acc)

\* [... for v in iterable]: the elements left to right; an exception ends it.
ListComp(m, elems, fn, acc) ==
  IF elems = <<>> \/ m.exc # NoExc THEN Return(m, acc)
  ELSE LET r == ListValue(m, Head(elems), fn)
       IN ListComp(r, Tail(elems), fn, Append(acc, r.res))

\* {k: ... for k, v in iterable.items()}: the items in insertion order.
DictComp(m, vals, fn, acc) ==
  IF vals = <<>> \/ m.exc # NoExc THEN Return(m, acc)
  ELSE LET r == DictValue(m, Head(vals), fn)
       IN DictComp(r, Tail(vals), fn, Append(acc, r.res))

\* The list branch storing the results back into the input list, which it
\* returns.
ListBranchInPlace(m, a, fn) ==
  LET r == ListComp(m, m.heap[a].items, fn, <<>>)
  IN IF r.exc # NoExc THEN Raise(r, r.exc)
     ELSE [r EXCEPT !.heap[a].items = r.res, !.res = a]

\* return [apply_lambda_to_iter(v, fn) for v in iterable]: a new list.
ListBranch(m, a, fn) ==
  LET r == ListComp(m, m.heap[a].items, fn, <<>>)
  IN IF r.exc # NoExc THEN Raise(r, r.exc) ELSE New(r, PyList(r.res))

\* return {k: ... for k, v in iterable.items()}: a new dict with the same keys.
DictBranch(m, a, fn) ==
  LET r == DictComp(m, m.heap[a].items, fn, <<>>)
  IN IF r.exc # NoExc THEN Raise(r, r.exc) ELSE New(r, PyDict(m.heap[a].keys, r.res))

apply_lambda_to_iter(m, a, fn) ==
  IF IsDict(m.heap[a]) THEN DictBranch(m, a, fn)
  ELSE IF IsList(m.heap[a]) THEN ListBranch(m, a, fn)
  ELSE ApplyFn(m, a, fn)

iter_to_numpy(m, a) == apply_lambda_to_iter(m, a, ToNumpy)

iter_to_device(m, a, device) == apply_lambda_to_iter(m, a, ToDevice(device))

----------------------------------------------------------------------------
(* The nested structures the mapper is run on *)

MapperLeaves == {PyInt(3), PyStr(<<"s">>), Tensor(2, CPU)}

KeyOrder == << <<"a">>, <<"b">> >>

RECURSIVE TreesOfSize(_, _, _)
RECURSIVE ForestsOfSize(_, _, _)

\* The sequences of trees with n nodes in all.
ForestsOfSize(leaves, kinds, n) ==
  IF n = 0 THEN {<<>>}
  ELSE UNION {{<<t>> \o f : t \in TreesOfSize(leaves, kinds, k),
                            f \in ForestsOfSize(leaves, kinds, n - k)} : k \in 1..n}

\* The values with n nodes: a leaf, or a container of one of the kinds (a
\* list, a tuple, a dict keyed in KeyOrder) of values.
TreesOfSize(leaves, kinds, n) ==
  IF n = 0 THEN {}
  ELSE (IF n = 1 THEN leaves ELSE {})
       \cup (IF "list" \in kinds
             THEN {PyList(f) : f \in ForestsOfSize(leaves, kinds, n - 1)} ELSE {})
       \cup (IF "tuple" \in kinds
             THEN {PyTuple(f) : f \in ForestsOfSize(leaves, kinds, n - 1)} ELSE {})
       \cup (IF "dict" \in kinds
             THEN {PyDict(SubSeq(KeyOrder, 1, Len(f)), f) :
                     f \in {g \in ForestsOfSize(leaves, kinds, n - 1) :
                              Len(g) <= Len(KeyOrder)}}
             ELSE {})

Trees(leaves, kinds, n) == UNION {TreesOfSize(leaves, kinds, k) : k \in 1..n}

IsContainer(o) == o.kind \in {"dict", "list", "tuple"}

\* A value built on the heap, its parts first: [heap, res].
RECURSIVE Build(_, _)
RECURSIVE BuildAll(_, _, _)
BuildAll(m, ts, acc) ==
  IF ts = <<>> THEN Return(m, acc)
  ELSE LET r == Build(m, Head(ts))
       IN BuildAll(r, Tail(ts), Append(acc, r.res))

Build(m, t) ==
  IF IsContainer(t)
  THEN LET r == BuildAll(m, t.items, <<>>) IN New(r, [t EXCEPT !.items = r.res])
  ELSE New(m, t)

\* The value at address a, read back from the heap.
RECURSIVE Read(_, _)
Read(h, a) ==
  IF IsContainer(h[a])
  THEN [h[a] EXCEPT !.items = [i \in 1..Len(h[a].items) |-> Read(h, h[a].items[i])]]
  ELSE h[a]

----------------------------------------------------------------------------
(* The mapper's specification *)

MapperCalls ==
  {[op |-> "apply_lambda_to_iter", fn |-> f] : f \in {Identity, Square}}
  \cup {[op |-> "iter_to_numpy", fn |-> ToNumpy]}
  \cup {[op |-> "iter_to_device", fn |-> ToDevice(CUDA)]}

InitMapper ==
  /\ pc = "call"
  /\ \E t \in Trees(MapperLeaves, {"dict", "list", "tuple"}, MaxNodes), c \in MapperCalls :
       LET b == Build(Machine(<<>>), t)
       IN /\ heap = b.heap
          /\ arg = [op |-> c.op, fn |-> c.fn, root |-> b.res, heap0 |-> b.heap]
  /\ ret = [res |-> 0, exc |-> NoExc]
  /\ calls = <<>>
  /\ cuda_available = FALSE
  /\ dir = {}
  /\ rng = <<>>
  /\ trace = <<>>
  /\ chain = <<>>

Finish(r) ==
  /\ heap' = r.heap
  /\ calls' = r.calls
  /\ ret' = [res |-> r.res, exc |-> r.exc]
  /\ pc' = "done"
  /\ UNCHANGED <<arg, cuda_available, dir, rng, trace, chain>>

CallApplyLambdaToIter ==
  /\ pc = "call"
  /\ arg.op = "apply_lambda_to_iter"
  /\ Finish(apply_lambda_to_iter(Machine(heap), arg.root, arg.fn))

CallIterToNumpy ==
  /\ pc = "call"
  /\ arg.op = "iter_to_numpy"
  /\ Finish(iter_to_numpy(Machine(heap), arg.root))

CallIterToDevice ==
  /\ pc = "call"
  /\ arg.op = "iter_to_device"
  /\ Finish(iter_to_device(Machine(heap), arg.root, arg.fn.device))

NextMapper == CallApplyLambdaToIter \/ CallIterToNumpy \/ CallIterToDevice

SpecMapper == InitMapper /\ [][NextMapper]_vars

----------------------------------------------------------------------------
(* The mapper's claims *)

InputTree == Read(arg.heap0, arg.root)
ResultTree == Read(heap, ret.res)

\* fn applied to one value on a heap of its own: whether it raises, and the
\* value it returns.
FnOnLeaf(t, fn) ==
  LET b == Build(Machine(<<>>), t)
      r == ApplyFn(b, b.res, fn)
  IN [exc |-> r.exc, val |-> IF r.exc = NoExc THEN Read(r.heap, r.res) ELSE PyNone]

\* The leaves of the value at a, left to right, when the kinds in seqs are
\* the sequence containers and dict is the mapping container.
RECURSIVE LeafAddrs(_, _, _)
RECURSIVE LeafAddrsOf(_, _, _)
LeafAddrsOf(h, as, seqs) ==
  IF as = <<>> THEN <<>>
  ELSE LeafAddrs(h, Head(as), seqs) \o LeafAddrsOf(h, Tail(as), seqs)

LeafAddrs(h, a, seqs) ==
  IF h[a].kind \in seqs \cup {"dict"} THEN LeafAddrsOf(h, h[a].items, seqs) ELSE <<a>>

AllLeavesOk(h, a, fn, seqs) ==
  \A i \in DOMAIN LeafAddrs(h, a, seqs) :
    FnOnLeaf(Read(h, LeafAddrs(h, a, seqs)[i]), fn).exc = NoExc

\* r has the shape of s, container for container, and fn(leaf) for each leaf.
RECURSIVE Corresponds(_, _, _, _)
Corresponds(s, r, fn, seqs) ==
  IF s.kind \in seqs \cup {"dict"}
  THEN /\ r.kind = s.kind
       /\ r.keys = s.keys
       /\ Len(r.items) = Len(s.items)
       /\ \A i \in 1..Len(s.items) : Corresponds(s.items[i], r.items[i], fn, seqs)
  ELSE r = FnOnLeaf(s, fn).val

MapsLeaves(seqs) ==
  (pc = "done" /\ AllLeavesOk(arg.heap0, arg.root, arg.fn, seqs))
    => /\ ret.exc = NoExc
       /\ Corresponds(InputTree, ResultTree, arg.fn, seqs)
       /\ calls = LeafAddrs(arg.heap0, arg.root, seqs)

\* C1 as stated: with every ordered non-mapping container (list, tuple) a
\* sequence, the result has the input's shape, each leaf is fn(leaf), and fn
\* is called on the leaves only, once each.
C1_Original == MapsLeaves({"list", "tuple"})

\* C1 as amended: the same with dict and list the only containers, a tuple
\* being a leaf that fn is called on as a whole.
C1_ShapeAndLeaves == MapsLeaves({"list"})

C1_Witness ==
  /\ pc = "done"
  /\ arg.fn = Square
  /\ ret.exc = NoExc
  /\ InputTree.kind = "dict"
  /\ \E i \in 1..Len(InputTree.items) :
       /\ InputTree.items[i].kind = "list"
       /\ Len(InputTree.items[i].items) = 1
       /\ InputTree.items[i].items[1].kind = "int"
  /\ \E i \in 1..Len(InputTree.items) : InputTree.items[i].kind = "tensor"

\* Python's ==: lists and tuples element by element, dicts key by key in any
\* order, leaves by value.
RECURSIVE DeepEq(_, _)
DeepEq(s, t) ==
  /\ s.kind = t.kind
  /\ IF s.kind = "dict"
     THEN /\ {s.keys[i] : i \in 1..Len(s.keys)} = {t.keys[i] : i \in 1..Len(t.keys)}
          /\ Len(s.keys) = Len(t.keys)
          /\ \A i \in 1..Len(s.keys) : \A j \in 1..Len(t.keys) :
               s.keys[i] = t.keys[j] => DeepEq(s.items[i], t.items[j])
     ELSE IF s.kind \in {"list", "tuple"}
     THEN /\ Len(s.items) = Len(t.items)
          /\ \A i \in 1..Len(s.items) : DeepEq(s.items[i], t.items[i])
     ELSE s = t

\* C2: with the identity transform the result is deep-equal to the input.
C2_IdentityDeepEqual ==
  (pc = "done" /\ arg.fn = Identity)
    => (ret.exc = NoExc /\ DeepEq(InputTree, ResultTree))

C2_Witness ==
  /\ pc = "done"
  /\ arg.fn = Identity
  /\ InputTree.kind = "list"
  /\ Len(InputTree.items) = 2
  /\ InputTree.items[1].kind = "dict"
  /\ InputTree.items[1].items # <<>>
  /\ InputTree.items[2].kind = "str"

\* The addresses reached from a by descending through objects of the kinds
\* in through, a included.
RECURSIVE Reach(_, _, _)
Reach(h, a, through) ==
  {a} \cup (IF h[a].kind \in through
            THEN UNION {Reach(h, h[a].items[i], through) : i \in 1..Len(h[a].items)}
            ELSE {})

InputUnchanged == SubSeq(heap, 1, Len(arg.heap0)) = arg.heap0

\* Every container of the kinds in kinds in the result, reached through such
\* containers, was allocated by the call.
ContainersNew(kinds) ==
  \A a \in Reach(heap, ret.res, kinds) :
    heap[a].kind \in kinds => a > Len(arg.heap0)

\* C3 as stated: the input is unchanged and every mapping or sequence
\* container in the result is a newly built one.
C3_Original ==
  (pc = "done" /\ ret.exc = NoExc)
    => (InputUnchanged /\ ContainersNew({"dict", "list", "tuple"}))

\* C3 as amended: the input is unchanged, also when fn raises, and every dict
\* or list of the result at a position reached through dicts and lists is
\* newly built.
C3_NoMutationNewContainers ==
  (pc = "done") =>
    /\ InputUnchanged
    /\ ret.exc = NoExc => ContainersNew({"dict", "list"})

C3_Witness ==
  /\ pc = "done"
  /\ ret.exc = NoExc
  /\ arg.fn = ToNumpy
  /\ InputTree.kind = "list"
  /\ \E i \in 1..Len(InputTree.items) :
       /\ InputTree.items[i].kind = "dict"
       /\ \E j \in 1..Len(InputTree.items[i].items) :
            InputTree.items[i].items[j].kind = "tensor"
  /\ heap[ret.res].kind = "list"

RECURSIVE Concat(_)
Concat(ss) == IF ss = <<>> THEN <<>> ELSE Head(ss) \o Concat(Tail(ss))

\* What the sequence branch computes for the i-th value of the input dict,
\* run on the input heap.
AsElement(i) ==
  ListValue(Machine(arg.heap0), arg.heap0[arg.root].items[i], arg.fn)

\* C10: for a dict input, the value stored under each key is the value the
\* sequence branch computes for it as an element, and fn is called on the
\* same leaves in the same order; the dict call raises exactly when one of
\* them does.
C10_BranchesAgree ==
  (pc = "done" /\ IsDict(arg.heap0[arg.root])) =>
    LET n == Len(arg.heap0[arg.root].items)
    IN IF \A i \in 1..n : AsElement(i).exc = NoExc
       THEN /\ ret.exc = NoExc
            /\ \A i \in 1..n :
                 Read(heap, heap[ret.res].items[i])
                   = Read(AsElement(i).heap, AsElement(i).res)
            /\ calls = Concat([i \in 1..n |-> AsElement(i).calls])
       ELSE ret.exc # NoExc

C10_Witness ==
  /\ pc = "done"
  /\ ret.exc = NoExc
  /\ arg.fn = Square
  /\ InputTree.kind = "dict"
  /\ Len(InputTree.items) = 2
  /\ InputTree.items[1].kind = "list"
  /\ InputTree.items[1].items # <<>>
  /\ InputTree.items[2].kind = "int"

----------------------------------------------------------------------------
(* parse_device *)

IsStr(o) == o.kind = "str"
IsInt(o) == o.kind \in {"int", "bool"}

CudaColon == <<"c", "u", "d", "a", ":">>

\* The prefix test without the colon: device.startswith("cuda")
StartsWithCudaNoColon(text) ==
  Len(text) >= Len(CUDA) /\ SubSeq(text, 1, Len(CUDA)) = CUDA

\* device.startswith("cuda:")
StartsWithCuda(text) ==
  Len(text) >= Len(CudaColon) /\ SubSeq(text, 1, Len(CudaColon)) = CudaColon

\* The default without the availability test.
DefaultDeviceAlwaysCuda == CUDA

\* "cuda" if torch.cuda.is_available() else "cpu"
DefaultDevice == IF cuda_available THEN CUDA ELSE CPU

RECURSIVE parse_device(_, _)
RECURSIVE ParseEach(_, _, _)

\* The element taken as it is: [_device for _device in device]
ParseElemUnparsed(m, v) == Return(m, v)

\* parse_device(_device), the element of the list comprehension.
ParseElem(m, v) == parse_device(m, v)

\* [parse_device(_device) for _device in device]
ParseEach(m, elems, acc) ==
  IF elems = <<>> \/ m.exc # NoExc THEN Return(m, acc)
  ELSE LET r == ParseElem(m, Head(elems))
       IN ParseEach(r, Tail(elems), Append(acc, r.res))

\* The iterables modelled are lists and tuples, iterated over their items.
parse_device(m, a) ==
  LET o == m.heap[a]
  IN IF IsStr(o)
     THEN IF o.text \in {CPU, CUDA} THEN Return(m, a)
          ELSE IF StartsWithCuda(o.text) THEN Return(m, a)
          ELSE Raise(m, "ValueError")
     ELSE IF IsInt(o) THEN Return(m, a)
     ELSE IF IsIterable(o)
     THEN LET r == ParseEach(m, o.items, <<>>)
          IN IF r.exc # NoExc THEN Raise(r, r.exc) ELSE New(r, PyList(r.res))
     ELSE New(m, PyStr(DefaultDevice))

DeviceStrings ==
  { CPU, CUDA,
    <<"c", "u", "d", "a", ":", "0">>,
    <<"c", "u", "d", "a", ":">>,
    <<"t", "p", "u">>,
    <<>>,
    <<"C", "U", "D", "A">>,
    <<"c", "u", "d", "a", "0">> }

DeviceLeaves ==
  {PyStr(t) : t \in DeviceStrings}
  \cup {PyInt(0), PyInt(1), Obj("bool", 1, <<>>, <<>>, <<>>)}
  \cup {PyNone, Obj("float", 1, <<>>, <<>>, <<>>)}

\* A call names its argument, or gives none: the parameter has no default.
InitDevice ==
  /\ pc = "call"
  /\ \/ \E t \in Trees(DeviceLeaves, {"list", "tuple"}, MaxDeviceNodes) :
          LET b == Build(Machine(<<>>), t)
          IN /\ heap = b.heap
             /\ arg = [op |-> "parse_device", given |-> TRUE,
                       root |-> b.res, heap0 |-> b.heap]
     \/ /\ heap = <<>>
        /\ arg = [op |-> "parse_device", given |-> FALSE, root |-> 0, heap0 |-> <<>>]
  /\ ret = [res |-> 0, exc |-> NoExc]
  /\ calls = <<>>
  /\ cuda_available \in BOOLEAN
  /\ dir = {}
  /\ rng = <<>>
  /\ trace = <<>>
  /\ chain = <<>>

\* parse_device(device): a call that binds the parameter runs the body.
CallParseDevice ==
  /\ pc = "call"
  /\ arg.given
  /\ Finish(parse_device(Machine(heap), arg.root))

\* parse_device(): the required parameter is missing, the call raises.
CallParseDeviceNoArgument ==
  /\ pc = "call"
  /\ ~arg.given
  /\ Finish(Raise(Machine(heap), "TypeError"))

NextDevice == CallParseDevice \/ CallParseDeviceNoArgument

SpecDevice == InitDevice /\ [][NextDevice]_vars

----------------------------------------------------------------------------
(* parse_device's claims *)

DeviceInput == arg.heap0[arg.root]

HasCudaColonPrefix(text) ==
  /\ Len(text) >= 5
  /\ text[1] = "c" /\ text[2] = "u" /\ text[3] = "d" /\ text[4] = "a" /\ text[5] = ":"

Recognized(text) ==
  text = <<"c", "p", "u">> \/ text = <<"c", "u", "d", "a">> \/ HasCudaColonPrefix(text)

\* C4: a string is returned as it is when it is "cpu", "cuda" or starts with
\* "cuda:", and any other string raises ValueError; nothing is allocated, so
\* no string gets the default device.
C4_Strings ==
  (pc = "done" /\ arg.given /\ DeviceInput.kind = "str") =>
    /\ heap = arg.heap0
    /\ IF Recognized(DeviceInput.text)
       THEN ret.exc = NoExc /\ ret.res = arg.root
       ELSE ret.exc = "ValueError"

C4_Witness ==
  /\ pc = "done"
  /\ arg.given
  /\ DeviceInput.kind = "str"
  /\ DeviceInput.text = <<"c", "u", "d", "a", ":", "0">>
  /\ ret.res = arg.root

\* Whether a string that is not recognized sits in the value, at any depth.
RECURSIVE HasBadString(_)
HasBadString(t) ==
  IF t.kind = "str" THEN ~Recognized(t.text)
  ELSE IF t.kind \in {"list", "tuple"}
  THEN \E i \in 1..Len(t.items) : HasBadString(t.items[i])
  ELSE FALSE

\* parse_device of the i-th element of the input, run on the input heap.
ElementAlone(i) == parse_device(Machine(arg.heap0), DeviceInput.items[i])

\* C5: an integer is returned as it is; an iterable whose elements all parse
\* gives a list of the same length holding parse_device of each element in
\* order; an unrecognized string at any depth makes the call raise ValueError.
C5_IntegersAndIterables ==
  (pc = "done" /\ arg.given) =>
    /\ DeviceInput.kind \in {"int", "bool"} =>
         (ret.exc = NoExc /\ ret.res = arg.root /\ heap = arg.heap0)
    /\ DeviceInput.kind \in {"list", "tuple"} =>
         LET n == Len(DeviceInput.items)
         IN IF \A i \in 1..n : ElementAlone(i).exc = NoExc
            THEN /\ ret.exc = NoExc
                 /\ heap[ret.res].kind = "list"
                 /\ Len(heap[ret.res].items) = n
                 /\ \A i \in 1..n :
                      Read(heap, heap[ret.res].items[i])
                        = Read(ElementAlone(i).heap, ElementAlone(i).res)
            ELSE ret.exc = "ValueError"
    /\ HasBadString(Read(arg.heap0, arg.root)) => ret.exc = "ValueError"

C5_Witness ==
  /\ pc = "done"
  /\ arg.given
  /\ Read(arg.heap0, arg.root) = PyList(<<PyStr(CPU), PyInt(0)>>)
  /\ ret.exc = NoExc
  /\ Read(heap, ret.res) = PyList(<<PyStr(CPU), PyInt(0)>>)

IsDefaultDevice ==
  /\ ret.exc = NoExc
  /\ Read(heap, ret.res) = PyStr(IF cuda_available THEN <<"c", "u", "d", "a">>
                                                    ELSE <<"c", "p", "u">>)

\* C6 as stated: any input that is no string, integer or iterable, no input
\* at all included, gives "cuda" on a host with an accelerator and "cpu" on
\* one without, and never fails.
C6_Original ==
  (pc = "done"
     /\ (~arg.given \/ DeviceInput.kind \notin {"str", "int", "bool", "list", "tuple"}))
    => IsDefaultDevice

\* C6 as amended: the same for every argument that is given.
C6_DefaultForOtherArguments ==
  (pc = "done" /\ arg.given
     /\ DeviceInput.kind \notin {"str", "int", "bool", "list", "tuple"})
    => IsDefaultDevice

C6_Witness ==
  /\ pc = "done"
  /\ arg.given
  /\ DeviceInput.kind = "NoneType"
  /\ ~cuda_available
  /\ ret.exc = NoExc
  /\ heap[ret.res].text = <<"c", "p", "u">>

----------------------------------------------------------------------------
(* get_latest_chkpts *)

\* The characters of the modelled names in code-point order.
Alphabet ==
  <<".", "0", "1", "2", "3", "9", "E", "P", "T", "_",
    "a", "b", "c", "e", "h", "o", "p", "t", "x">>

Ord(c) == CHOOSE i \in 1..Len(Alphabet) : Alphabet[i] = c

\* str.__lt__, which orders the paths of one directory by name.
RECURSIVE NameLess(_, _)
NameLess(s, t) ==
  IF t = <<>> THEN FALSE
  ELSE IF s = <<>> THEN TRUE
  ELSE IF Head(s) # Head(t) THEN Ord(Head(s)) < Ord(Head(t))
  ELSE NameLess(Tail(s), Tail(t))

DotPt == <<".", "p", "t">>

\* The names "*.pt" matches.
Matches(name) ==
  Len(name) >= Len(DotPt)
    /\ SubSeq(name, Len(name) - Len(DotPt) + 1, Len(name)) = DotPt

\* checkpoint_dir.glob("*.pt"): the matching names, in whatever order the
\* file system lists them.
Listings(d) ==
  LET found == {n \in d : Matches(n)}
  IN {l \in [1..Cardinality(found) -> found] :
        \A i, j \in 1..Cardinality(found) : i # j => l[i] # l[j]}

\* sorted(...): ascending, stable.
RECURSIVE InsertSorted(_, _)
InsertSorted(x, l) ==
  IF l = <<>> THEN <<x>>
  ELSE IF NameLess(x, Head(l)) THEN <<x>> \o l
  ELSE <<Head(l)>> \o InsertSorted(x, Tail(l))

RECURSIVE Sorted(_)
Sorted(l) ==
  IF l = <<>> THEN <<>>
  ELSE InsertSorted(l[Len(l)], Sorted(SubSeq(l, 1, Len(l) - 1)))

\* The slice left out.
NotReversed(l) == l

\* [::-1]
Reversed(l) == [i \in 1..Len(l) |-> l[Len(l) + 1 - i]]

get_latest_chkpts(listing) == Reversed(Sorted(listing))

Epoch(n) == <<"e", "p", "o", "c", "h", "_", "0", n, ".", "p", "t">>

FileNames ==
  { Epoch("1"), Epoch("2"), Epoch("3"),
    <<"e", "9", ".", "p", "t">>,
    <<"e", "1", "0", ".", "p", "t">>,
    <<"E", "1", ".", "p", "t">>,
    <<"b", ".", "p", "t", "h">>,
    <<"c", ".", "t", "x", "t">>,
    <<"x", ".", "P", "T">>,
    <<"p", "t">> }

InitChkpt ==
  /\ pc = "call"
  /\ dir \in SUBSET FileNames
  /\ arg = [op |-> "get_latest_chkpts", dir0 |-> dir]
  /\ ret = [res |-> <<>>, exc |-> NoExc]
  /\ heap = <<>>
  /\ calls = <<>>
  /\ cuda_available = FALSE
  /\ rng = <<>>
  /\ trace = <<>>
  /\ chain = <<>>

CallGetLatestChkpts ==
  /\ pc = "call"
  /\ \E listing \in Listings(dir) :
       ret' = [res |-> get_latest_chkpts(listing), exc |-> NoExc]
  /\ pc' = "done"
  /\ UNCHANGED <<heap, arg, calls, cuda_available, dir, rng, trace, chain>>

NextChkpt == CallGetLatestChkpts

SpecChkpt == InitChkpt /\ [][NextChkpt]_vars

(* get_latest_chkpts's claim *)

HasPtSuffix(name) ==
  /\ Len(name) >= 3
  /\ name[Len(name) - 2] = "."
  /\ name[Len(name) - 1] = "p"
  /\ name[Len(name)] = "t"

----------------------------------------------------------------------------
(* set_seed *)

\* random, np.random, torch (CPU) and torch.cuda (every accelerator).
Sources == {"random", "numpy", "torch", "torch_cuda"}

\* The libraries' generators: seeding puts a source in a state that is a
\* function of the seed, a draw returns a function of the state and steps it.
\* The seeds modelled, 0..MaxSeed, are seeds every one of the libraries accepts.
SeedState(s) == s % RngModulus
StepState(x) == (3 * x + 1) % RngModulus
Output(x) == x

\* A seeding that folds the seed into the state the source was in.
SeedSourceMixesOldState(r, src, s) ==
  [r EXCEPT ![src] = (r[src] + SeedState(s)) % RngModulus]

\* random.seed(seed), np.random.seed(seed), torch.manual_seed(seed),
\* torch.cuda.manual_seed_all(seed): one source reseeded.
SeedSource(r, src, s) == [r EXCEPT ![src] = SeedState(s)]

\* The assert, then the four seedings in the order of the code, then the
\* seed returned.
set_seed(r, seed) ==
  IF seed.isNone THEN [rng |-> r, exc |-> "AssertionError", res |-> 0]
  ELSE LET r1 == SeedSource(r, "random", seed.val)
           r2 == SeedSource(r1, "numpy", seed.val)
           r3 == SeedSource(r2, "torch", seed.val)
           r4 == SeedSource(r3, "torch_cuda", seed.val)
       IN [rng |-> r4, exc |-> NoExc, res |-> seed.val]

SeedArgs ==
  {[isNone |-> FALSE, val |-> v] : v \in 0..MaxSeed} \cup {[isNone |-> TRUE, val |-> 0]}

\* The process starts with every source seeded from the system's entropy.
InitSeed ==
  /\ \E e \in 0..(RngModulus - 1) : rng = [src \in Sources |-> e]
  /\ trace = <<>>
  /\ pc = "run"
  /\ heap = <<>>
  /\ arg = <<>>
  /\ ret = <<>>
  /\ calls = <<>>
  /\ cuda_available = FALSE
  /\ dir = {}
  /\ chain = <<>>

CallSetSeed ==
  /\ Len(trace) < MaxOps
  /\ \E seed \in SeedArgs :
       LET r == set_seed(rng, seed)
       IN /\ rng' = r.rng
          /\ trace' = Append(trace, [op |-> "set_seed", seed |-> seed, src |-> "",
                                     val |-> r.res, exc |-> r.exc,
                                     before |-> rng, after |-> r.rng])
  /\ UNCHANGED <<pc, heap, arg, ret, calls, cuda_available, dir, chain>>

\* One value drawn from one source by the caller.
Draw ==
  /\ Len(trace) < MaxOps
  /\ \E src \in Sources :
       /\ rng' = [rng EXCEPT ![src] = StepState(@)]
       /\ trace' = Append(trace, [op |-> "draw", seed |-> [isNone |-> TRUE, val |-> 0],
                                  src |-> src, val |-> Output(rng[src]), exc |-> NoExc,
                                  before |-> rng, after |-> rng'])
  /\ UNCHANGED <<pc, heap, arg, ret, calls, cuda_available, dir, chain>>

NextSeed == CallSetSeed \/ Draw

SpecSeed == InitSeed /\ [][NextSeed]_vars

(* set_seed's claim *)

SeededAt(i, s) ==
  /\ trace[i].op = "set_seed"
  /\ ~trace[i].seed.isNone
  /\ trace[i].seed.val = s

Reseeded(i) == trace[i].op = "set_seed" /\ trace[i].exc = NoExc

\* The positions of the draws from src that follow the seeding at i with no
\* later seeding in between.
DrawsAfter(i, src) ==
  {k \in (i + 1)..Len(trace) :
     /\ trace[k].op = "draw"
     /\ trace[k].src = src
     /\ \A l \in (i + 1)..(k - 1) : ~Reseeded(l)}

Rank(ks, k) == Cardinality({x \in ks : x <= k})

----------------------------------------------------------------------------
(* Dummy *)

DummyObj == Obj("Dummy", 0, <<>>, <<>>, <<>>)

\* The methods the class defines, and an attribute every object inherits:
\* normal lookup finds these, so __getattr__ is not consulted for them.
DummyMethods == {"__init__", "__call__", "__getattr__", "__getitem__"}
InheritedAttrs == {"__class__"}

\* __init__: pass (the call returns None).
DummyInit(m, self) == New(m, PyNone)

\* __call__: return self
DummyCall(m, self) == Return(m, self)

\* __getattr__: return self
DummyGetattr(m, self, name) == Return(m, self)

\* __getitem__ returning a fresh placeholder: return Dummy()
DummyGetitemReturnsNew(m, self, key) == New(m, DummyObj)

\* __getitem__: return self
DummyGetitem(m, self, key) == Return(m, self)

\* obj(...): a Dummy's __call__, a bound method's function on its
\* instance, the class constructing a new instance; None is not callable.
Call(m, a) ==
  LET o == m.heap[a]
  IN CASE o.kind = "Dummy" -> DummyCall(m, a)
       [] o.kind = "method" ->
            IF o.text = <<"__init__">> THEN DummyInit(m, o.items[1])
            ELSE IF o.text = <<"__call__">> THEN DummyCall(m, o.items[1])
            ELSE IF o.text = <<"__getattr__">> THEN DummyGetattr(m, o.items[1], "")
            ELSE DummyGetitem(m, o.items[1], "")
       [] o.kind = "type" -> New(m, DummyObj)
       [] OTHER -> Raise(m, "TypeError")

\* obj.name on a Dummy: what normal lookup finds (a method bound to the
\* instance, the class), else __getattr__.
GetAttr(m, a, name) ==
  IF name \in DummyMethods THEN New(m, Obj("method", 0, <<name>>, <<>>, <<a>>))
  ELSE IF name \in InheritedAttrs THEN New(m, Obj("type", 0, <<"Dummy">>, <<>>, <<>>))
  ELSE DummyGetattr(m, a, name)

\* obj[key]: a Dummy's __getitem__; a method, the class and None are not
\* subscriptable.
GetItem(m, a, key) ==
  IF m.heap[a].kind = "Dummy" THEN DummyGetitem(m, a, key) ELSE Raise(m, "TypeError")

CallArgs == {<<>>, <<"x">>, <<"x", "y">>}
AttrNames == {"foo", "shape"} \cup DummyMethods \cup InheritedAttrs
ItemKeys == {"k", "0"}

\* Dummy(...): the instance, with nothing stored on it.
InitDummy ==
  /\ pc = "run"
  /\ heap = <<DummyObj>>
  /\ \E args \in CallArgs :
       /\ arg = [op |-> "Dummy", args |-> args, inst |-> 1]
       /\ chain = <<[op |-> "construct", arg |-> args]>>
  /\ ret = [res |-> 1, exc |-> NoExc]
  /\ calls = <<>>
  /\ cuda_available = FALSE
  /\ dir = {}
  /\ rng = <<>>
  /\ trace = <<>>

Chained(r, op, a) ==
  /\ heap' = r.heap
  /\ ret' = [res |-> r.res, exc |-> r.exc]
  /\ chain' = Append(chain, [op |-> op, arg |-> a])
  /\ UNCHANGED <<pc, arg, calls, cuda_available, dir, rng, trace>>

CanChain == ret.exc = NoExc /\ Len(chain) <= MaxChain

ChainCall ==
  /\ CanChain
  /\ \E args \in CallArgs : Chained(Call(Machine(heap), ret.res), "call", args)

\* Attribute access is modelled on Dummy instances, whose class is in the
\* source.
ChainGetAttr ==
  /\ CanChain
  /\ heap[ret.res].kind = "Dummy"
  /\ \E name \in AttrNames :
       Chained(GetAttr(Machine(heap), ret.res, name), "getattr", <<name>>)

ChainGetItem ==
  /\ CanChain
  /\ \E key \in ItemKeys :
       Chained(GetItem(Machine(heap), ret.res, key), "getitem", <<key>>)

NextDummy == ChainCall \/ ChainGetAttr \/ ChainGetItem

SpecDummy == InitDummy /\ [][NextDummy]_vars

(* Dummy's claim *)

StillTheInstance == ret.exc = NoExc /\ ret.res = arg.inst

\* C9 as stated: after any chain of calls, attribute accesses and indexings
\* the result is the constructed instance, and nothing has failed.
C9_Original == StillTheInstance

\* C9 as amended: the same for the chains whose attribute names normal
\* lookup does not find.
C9_AlwaysSelf ==
  (\A i \in 1..Len(chain) :
     chain[i].op = "getattr" =>
       chain[i].arg[1] \notin {"__init__", "__call__", "__getattr__", "__getitem__",
                               "__class__"})
    => StillTheInstance

C9_Witness ==
  /\ Len(chain) = 4
  /\ chain[2].op = "call" /\ chain[2].arg = <<"x", "y">>
  /\ chain[3].op = "getattr" /\ chain[3].arg = <<"foo">>
  /\ chain[4].op = "getitem"
  /\ ret.res = arg.inst

====
